---------------------------- MODULE Spec2Model ----------------------------
(***************************************************************************)
(* Post-processing scripts of the lid-driven-cavity results directory:     *)
(*   LidDrivenCavity/misc_scripts/csv_to_xdmf_converter.py                 *)
(*   misc_scripts/verify_xdmf_files.py, misc_scripts/test_converter.py     *)
(*   misc_scripts/plotta.py                                                *)
(* Every script is a sequential batch job.  A script is modelled by the    *)
(* position of its control (pc), the arguments of the call it is making    *)
(* (args), what the call produced (result) and the results directory on    *)
(* disk (disk).                                                            *)
(*                                                                         *)
(* Text is a sequence of one-character strings where the code looks at     *)
(* single characters (the folder-name regular expression) and a string     *)
(* otherwise.  Numbers read from a CSV file are kept symbolic: the cell of *)
(* column c, row i of file f is the token <<f, c, i>>.  Lengths in the     *)
(* perimeter computation are fixed-point integers, UNIT to the metre.      *)
(***************************************************************************)
EXTENDS Integers, Sequences, FiniteSets, TLC

VARIABLES
    pc,                      \* position of the running script
    args,                    \* arguments of the call being made
    result,                  \* outcome of the call: returned value or raised
    disk,                    \* results directory: folder -> (file -> content)
    re_folders,              \* process_all_reynolds_folders: sorted work list
    done_log,                \* folders handed to merge_surfaces_to_xdmf, in order
    successful_conversions,  \* process_all_reynolds_folders counter
    failed_conversions,      \* process_all_reynolds_folders counter
    verification_results     \* verify_xdmf_files: per-file verdicts and counters

vars == <<pc, args, result, disk, re_folders, done_log,
          successful_conversions, failed_conversions, verification_results>>

\* the variables of the batch scripts that walk the results directory
dirVars == <<disk, re_folders, done_log, successful_conversions,
             failed_conversions, verification_results>>

(***************************************************************************)
(* Python values                                                           *)
(***************************************************************************)
None == [none |-> TRUE]
Some(v) == [some |-> v]
Returned(v) == [kind |-> "returned", value |-> v]
Raised == [kind |-> "raised"]
NotCalled == [kind |-> "not_called"]

\* the value of variables a script does not use
Idle == [idle |-> TRUE]

(***************************************************************************)
(* Bounds of the model                                                     *)
(***************************************************************************)
MaxNameLen == 6

(***************************************************************************)
(* Characters and strings                                                  *)
(***************************************************************************)
Digits == {"0", "1"}
Letters == {"R", "e", "a"}
Chars == Digits \cup Letters \cup {"-", "\n"}

\* regular-expression classes \d and \w restricted to Chars
IsDigit(c) == c \in Digits
IsWord(c) == c \in Digits \cup Letters

Names == UNION {[1..n -> Chars] : n \in 0..MaxNameLen}

AllDigits(s, lo, hi) == \A i \in lo..hi : IsDigit(s[i])
AllWord(s, lo, hi) == \A i \in lo..hi : IsWord(s[i])

\* ---------------------------------------------------------------------------
\* extract_reynolds_number: re.match(r'Re(\d+)(?:-\d+\w*)?$', folder_name)
\* ---------------------------------------------------------------------------
\* '$' (no MULTILINE flag): the end of the string, or just before a newline
\* that is the last character of the string.  k is the next position to read.
DollarAt(s, k) ==
    \/ k = Len(s) + 1
    \/ k = Len(s) /\ s[k] = "\n"

\* (?:-\d+\w*)?$ read from position k
SuffixMatches(s, k) ==
    \/ DollarAt(s, k)
    \/ /\ k <= Len(s)
       /\ s[k] = "-"
       /\ \E j \in (k + 1)..Len(s) :
            /\ AllDigits(s, k + 1, j)
            /\ \E m \in j..Len(s) :
                 /\ AllWord(s, j + 1, m)
                 /\ DollarAt(s, m + 1)

\* the ends i of group 1 (s[3..i]) for which the whole pattern matches
GroupEnds(s) ==
    {i \in 3..Len(s) :
        /\ s[1] = "R"
        /\ s[2] = "e"
        /\ AllDigits(s, 3, i)
        /\ SuffixMatches(s, i + 1)}

Max(S) == CHOOSE x \in S : \A y \in S : y <= x

\* the greedy \d+ keeps the longest run that lets the rest match
extract_reynolds_number(folder_name) ==
    IF GroupEnds(folder_name) = {}
    THEN None
    ELSE Some(SubSeq(folder_name, 3, Max(GroupEnds(folder_name))))

(***************************************************************************)
(* Script: one call of extract_reynolds_number on an arbitrary name        *)
(***************************************************************************)
InitRe ==
    /\ pc = "extract_reynolds_number"
    /\ \E s \in Names : args = [folder_name |-> s]
    /\ result = NotCalled
    /\ disk = Idle
    /\ re_folders = Idle
    /\ done_log = Idle
    /\ successful_conversions = 0
    /\ failed_conversions = 0
    /\ verification_results = Idle

CallExtract ==
    /\ pc = "extract_reynolds_number"
    /\ result' = Returned(extract_reynolds_number(args.folder_name))
    /\ pc' = "done"
    /\ UNCHANGED <<args, dirVars>>

NextRe == CallExtract

SpecRe == InitRe /\ [][NextRe]_vars


\* ---------------------------------------------------------------------------
\* The folder names of the documented form: 'Re' digits, optionally followed
\* by '-' digits and word characters, and nothing else.
\* ---------------------------------------------------------------------------
HasReForm(s) ==
    \E i \in 3..Len(s) :
        /\ s[1] = "R"
        /\ s[2] = "e"
        /\ AllDigits(s, 3, i)
        /\ \/ i = Len(s)
           \/ /\ i + 2 <= Len(s)
              /\ s[i + 1] = "-"
              /\ \E j \in (i + 2)..Len(s) :
                    /\ AllDigits(s, i + 2, j)
                    /\ AllWord(s, j + 1, Len(s))

\* the digits that follow 'Re'
ReDigits(s) ==
    SubSeq(s, 3, Max({i \in 2..Len(s) : AllDigits(s, 3, i)}))

TOL == 2
UNIT == 100 * TOL
Margin == 3

Abs(n) == IF n < 0 THEN -n ELSE n

Num(n) == [num |-> n]
NaN == [nan |-> TRUE]

\* the formula of each wall
TopS(x) == x
RightS(y, L_height) == UNIT + (L_height - y)
BottomS(x, L_height) == UNIT + L_height + (UNIT - x)
LeftS(y, L_height) == 2 * UNIT + L_height + y

calculate_surface_coordinate(x, y, L_height) ==
    IF Abs(y - L_height) < TOL THEN Num(TopS(x))
    ELSE IF Abs(x - UNIT) < TOL THEN Num(RightS(y, L_height))
    ELSE IF Abs(y) < TOL THEN Num(BottomS(x, L_height))
    ELSE IF Abs(x) < TOL THEN Num(LeftS(y, L_height))
    ELSE NaN

\* cavity heights and sample coordinates: around each wall and mid-wall
Heights == {UNIT, 2 * UNIT}
Near(c) == (c - Margin)..(c + Margin)
XCoords == Near(0) \cup {UNIT \div 2} \cup Near(UNIT)
YCoords(L_height) == Near(0) \cup {L_height \div 2} \cup Near(L_height)

InitSurf ==
    /\ pc = "calculate_surface_coordinate"
    /\ \E L \in Heights : \E x \in XCoords : \E y \in YCoords(L) :
          args = [x |-> x, y |-> y, L_height |-> L]
    /\ result = NotCalled
    /\ disk = Idle
    /\ re_folders = Idle
    /\ done_log = Idle
    /\ successful_conversions = 0
    /\ failed_conversions = 0
    /\ verification_results = Idle

CallSurfaceCoordinate ==
    /\ pc = "calculate_surface_coordinate"
    /\ result' = Returned(calculate_surface_coordinate(args.x, args.y, args.L_height))
    /\ pc' = "done"
    /\ UNCHANGED <<args, dirVars>>

NextSurf == CallSurfaceCoordinate

SpecSurf == InitSurf /\ [][NextSurf]_vars

\* the walls of the 1 x L_height cavity
OnTop(a) == a.y = a.L_height /\ 0 <= a.x /\ a.x <= UNIT
OnRight(a) == a.x = UNIT /\ 0 <= a.y /\ a.y <= a.L_height
OnBottom(a) == a.y = 0 /\ 0 <= a.x /\ a.x <= UNIT
OnLeft(a) == a.x = 0 /\ 0 <= a.y /\ a.y <= a.L_height
OffWalls(a) ==
    /\ Abs(a.y - a.L_height) >= TOL
    /\ Abs(a.x - UNIT) >= TOL
    /\ Abs(a.y) >= TOL
    /\ Abs(a.x) >= TOL

InRange(v, lo, hi) == v # NaN /\ lo <= v.num /\ v.num <= hi

\* C10: a perimeter point maps to s = x in [0,1] on the top wall, to
\* [1, 1+L] on the right wall, to [1+L, 2+L] on the bottom wall and to
\* [2+L, 2+2L] on the left wall, with s = 0 at the corner (0, L); the formulas
\* of adjacent walls agree at the corners (1,L), (1,0) and (0,0); a point
\* within tolerance of no wall maps to NaN.
C10_PerimeterCoordinate ==
    pc = "done" =>
        LET a == args
            L == args.L_height
            s == result.value
        IN  /\ OnTop(a) => s = Num(a.x) /\ InRange(s, 0, UNIT)
            /\ (a.x = 0 /\ a.y = L) => s = Num(0)
            /\ OnRight(a) => InRange(s, UNIT, UNIT + L)
            /\ OnBottom(a) => InRange(s, UNIT + L, 2 * UNIT + L)
            /\ (OnLeft(a) /\ a.y # L) => InRange(s, 2 * UNIT + L, 2 * UNIT + 2 * L)
            /\ TopS(UNIT) = RightS(L, L)
            /\ RightS(0, L) = BottomS(UNIT, L)
            /\ BottomS(0, L) = LeftS(0, L)
            /\ OffWalls(a) => s = NaN


(***************************************************************************)
(* csv_to_xdmf_converter.py: files, data frames and arrays                 *)
(*                                                                         *)
(* A CSV file is its header (the whitespace-separated names of its first   *)
(* line, which pandas keeps distinct), its number of data rows and whether *)
(* a column the converter reads holds a token that is not a number.        *)
(***************************************************************************)
MaxRows == 2

\* header names in the order an export writes them
RawOrder ==
    <<"cellnumber", "x-coordinate", "y-coordinate", "x", "wall-shear",
      "wall_shear_magnitude">>
RawCols == {RawOrder[i] : i \in DOMAIN RawOrder}

Header(S) == SelectSeq(RawOrder, LAMBDA c : c \in S)

CsvFile(header, n, text) ==
    [type |-> "csv", readable |-> TRUE, header |-> header, n |-> n, text |-> text]
\* a file pandas.read_csv raises on (empty, binary, ragged, no permission)
UnreadableCsv ==
    [type |-> "csv", readable |-> FALSE, header |-> <<>>, n |-> 0, text |-> FALSE]
\* an output file left by something else than this run
OldFile == [type |-> "old"]

\* a file without data rows holds no token at all
CsvFiles ==
    {UnreadableCsv} \cup
    {f \in {CsvFile(Header(S), n, t) :
                S \in SUBSET RawCols, n \in 0..MaxRows, t \in BOOLEAN} :
        f.text => f.n > 0}

\* what row r of the columns c of file f holds; a literal number
Cell(f, c, r) == [f |-> f, c |-> c, r |-> r]
Lit(v) == [lit |-> v]

\* an array of shape (Len(vals),) when ncols = 1, of shape (Len(vals), ncols)
\* otherwise; vals are its entries along the first axis
Array(dtype, ncols, vals) == [dtype |-> dtype, ncols |-> ncols, vals |-> vals]
\* an N x 3 float64 array, row by row
Points(rows) == [dtype |-> "float64", rows |-> rows]
\* np.full filling one entry too many
Full_OneMore(n, v) == [i \in 1..(n + 1) |-> Lit(v)]
Full(n, v) == [i \in 1..n |-> Lit(v)]

\* pd.read_csv(csv_file_path, sep='\s+') of a readable file
read_csv(csv_name, file) ==
    [file |-> csv_name,
     n |-> file.n,
     text |-> file.text,
     columns |-> [i \in 1..Len(file.header) |->
                    [name |-> file.header[i], src |-> file.header[i]]]]

column_mapping(c) ==
    CASE c = "x-coordinate" -> "x"
      [] c = "y-coordinate" -> "y"
      [] c = "x-velocity" -> "velocity_x"
      [] c = "y-velocity" -> "velocity_y"
      [] c = "velocity-magnitude" -> "velocity_magnitude"
      [] c = "x-wall-shear" -> "wall_shear_x"
      [] c = "y-wall-shear" -> "wall_shear_y"
      [] c = "wall-shear" -> "wall_shear_magnitude"
      [] c = "pressure" -> "pressure"
      [] c = "cellnumber" -> "cell_id"
      [] OTHER -> c

RECURSIVE Unique(_)
\* cols_to_keep: the names in order of first occurrence
Unique(names) ==
    IF names = <<>> THEN <<>>
    ELSE LET init == Unique(SubSeq(names, 1, Len(names) - 1))
             last == names[Len(names)]
         IN  IF \E i \in DOMAIN init : init[i] = last
             THEN init ELSE Append(init, last)

RECURSIVE SelectColumns(_, _)
\* df[cols_to_keep]: a label selects every column that carries it
SelectColumns(columns, keep) ==
    IF keep = <<>> THEN <<>>
    ELSE SelectSeq(columns, LAMBDA col : col.name = Head(keep))
            \o SelectColumns(columns, Tail(keep))

\* the header names hold no blanks (they were split on blanks), so
\* str.strip() leaves them as they are
clean_column_names(df) ==
    LET renamed == [i \in DOMAIN df.columns |->
                      [name |-> column_mapping(df.columns[i].name),
                       src |-> df.columns[i].src]]
        cols_to_keep == Unique([i \in DOMAIN renamed |-> renamed[i].name])
    IN  [df EXCEPT !.columns = SelectColumns(renamed, cols_to_keep)]

ColumnsNamed(df, c) == SelectSeq(df.columns, LAMBDA col : col.name = c)
HasColumn(df, c) == ColumnsNamed(df, c) # <<>>
\* df[c].values is one-dimensional only when one column carries the label
OneDim(df, c) == Len(ColumnsNamed(df, c)) = 1
Values(df, c) ==
    [i \in 1..df.n |->
        Cell(df.file,
             [k \in DOMAIN ColumnsNamed(df, c) |-> ColumnsNamed(df, c)[k].src], i)]

scalar_fields ==
    {"velocity_x", "velocity_y", "velocity_magnitude", "wall_shear_x",
     "wall_shear_y", "wall_shear_magnitude", "pressure"}

FailTriple == [points |-> None, data_dict |-> None, num_points |-> 0]

\* convert_csv_to_xdmf(csv_file_path, wall_type, wall_id); file is what is
\* stored under csv_file_path
convert_csv_to_xdmf(csv_name, file, wall_type, wall_id) ==
    IF ~file.readable THEN Returned(FailTriple)
    ELSE
    LET df == clean_column_names(read_csv(csv_name, file))
        num_points == df.n
        labels == {"wall_id", "wall_type"}
        floats == {f \in scalar_fields : HasColumn(df, f)}
        ints == IF HasColumn(df, "cell_id") THEN {"cell_id"} ELSE {}
    IN  IF ~HasColumn(df, "x") \/ ~HasColumn(df, "y") THEN Returned(FailTriple)
        \* a two-dimensional column cannot be assigned to a column of points,
        \* a token that is no number cannot be cast: ValueError
        ELSE IF ~OneDim(df, "x") \/ ~OneDim(df, "y") \/ df.text THEN Raised
        ELSE Returned(
            [points |-> Points([i \in 1..num_points |->
                            <<Values(df, "x")[i], Values(df, "y")[i], Lit(0)>>]),
             data_dict |->
                [f \in labels \cup floats \cup ints |->
                    IF f = "wall_id" THEN Array("int32", 1, Full(num_points, wall_id))
                    ELSE IF f = "wall_type"
                    THEN Array("int32", 1,
                               Full(num_points, IF wall_type = "moving" THEN 1 ELSE 0))
                    ELSE IF f = "cell_id"
                    THEN Array("int32", Len(ColumnsNamed(df, f)), Values(df, f))
                    ELSE Array("float64", Len(ColumnsNamed(df, f)), Values(df, f))],
             num_points |-> num_points])

(***************************************************************************)
(* Script: one call of convert_csv_to_xdmf on an arbitrary file            *)
(***************************************************************************)
WallTypes == {"moving", "stationary", "unknown"}
WallIds == {0, 1}

InitConvert ==
    /\ pc = "convert_csv_to_xdmf"
    /\ \E file \in CsvFiles, wt \in WallTypes, id \in WallIds :
          /\ args = [csv_file_path |-> "wall.csv", wall_type |-> wt, wall_id |-> id]
          /\ disk = ("wall.csv" :> file)
    /\ result = NotCalled
    /\ re_folders = Idle
    /\ done_log = Idle
    /\ successful_conversions = 0
    /\ failed_conversions = 0
    /\ verification_results = Idle

CallConvert ==
    /\ pc = "convert_csv_to_xdmf"
    /\ result' = convert_csv_to_xdmf(args.csv_file_path, disk[args.csv_file_path],
                                     args.wall_type, args.wall_id)
    /\ pc' = "done"
    /\ UNCHANGED <<args, dirVars>>

NextConvert == CallConvert

SpecConvert == InitConvert /\ [][NextConvert]_vars

CsvName(prefix, re_number) == <<prefix>> \o re_number \o <<".csv">>
OutName(re_number, surface, ext) == <<"Re">> \o re_number \o <<surface, ext>>

Exists(folder, name) == name \in DOMAIN folder

\* save_to_hdf5 storing the points under another dataset name
save_to_hdf5_AsPoints(points, data_dict) ==
    [type |-> "h5",
     datasets |-> [d \in {"points"} \cup DOMAIN data_dict |->
                     IF d = "points" THEN points ELSE data_dict[d]]]

\* save_to_hdf5(h5_path, points, data_dict): the content of the file written
save_to_hdf5(points, data_dict) ==
    [type |-> "h5",
     datasets |-> [d \in {"coordinates"} \cup DOMAIN data_dict |->
                     IF d = "coordinates" THEN points ELSE data_dict[d]]]

\* the text of a DataItem: f"{h5_filename}:/{field_name}"
HdfRef(h5_filename, dataset) == h5_filename \o <<":", "/", dataset>>

\* create_xdmf_file declaring every attribute Float/8
create_xdmf_file_AllFloat(h5_filename, points, data_dict, num_points) ==
    [type |-> "xdmf",
     topology |-> [TopologyType |-> "Polyvertex", NodesPerElement |-> num_points],
     geometry |-> [Dimensions |-> <<num_points, 3>>,
                   NumberType |-> "Float",
                   Precision |-> 8,
                   Format |-> "HDF",
                   text |-> HdfRef(h5_filename, "coordinates")],
     attributes |-> [f \in DOMAIN data_dict |->
                      [Dimensions |-> <<num_points>>,
                       NumberType |-> "Float",
                       Precision |-> 8,
                       Format |-> "HDF",
                       text |-> HdfRef(h5_filename, f)]]]

\* create_xdmf_file(output_path, h5_filename, points, data_dict, num_points):
\* the content of the file written.  DataItems come in document order: the
\* geometry item, then one per attribute.
create_xdmf_file(h5_filename, points, data_dict, num_points) ==
    [type |-> "xdmf",
     topology |-> [TopologyType |-> "Polyvertex", NodesPerElement |-> num_points],
     geometry |-> [Dimensions |-> <<num_points, 3>>,
                   NumberType |-> "Float",
                   Precision |-> 8,
                   Format |-> "HDF",
                   text |-> HdfRef(h5_filename, "coordinates")],
     attributes |-> [f \in DOMAIN data_dict |->
                      [Dimensions |-> <<num_points>>,
                       NumberType |-> IF data_dict[f].dtype = "float64"
                                      THEN "Float" ELSE "Int",
                       Precision |-> IF data_dict[f].dtype = "float64" THEN 8 ELSE 4,
                       Format |-> "HDF",
                       text |-> HdfRef(h5_filename, f)]]]

\* np.zeros(n, dtype) and np.concatenate([a, b]) (mixed types promote; arrays
\* of different dimensions cannot be joined: ValueError)
Zeros(n, dtype) == Array(dtype, 1, Full(n, 0))
CanConcatenate(a, b) == a.ncols = b.ncols
\* np.concatenate([b, a])
Concatenate_Swapped(a, b) ==
    Array(IF a.dtype = b.dtype THEN a.dtype ELSE "float64", a.ncols,
          b.vals \o a.vals)
Concatenate(a, b) ==
    Array(IF a.dtype = b.dtype THEN a.dtype ELSE "float64", a.ncols,
          a.vals \o b.vals)
\* padding with the count of the surface that has the field
ZerosLike_OwnCount(field_data, n) ==
    IF field_data.dtype = "int32" THEN Zeros(Len(field_data.vals), "int32")
    ELSE Zeros(Len(field_data.vals), "float64")
\* the padding of a field the other surface alone has
ZerosLike(field_data, n) ==
    IF field_data.dtype = "int32" THEN Zeros(n, "int32") ELSE Zeros(n, "float64")

\* lines 246-274 of merge_surfaces_to_xdmf: the combined points and fields
combined_points(moving, stat) == Points(moving.points.rows \o stat.points.rows)
combined_data(moving, stat) ==
    [field \in DOMAIN moving.data_dict \cup DOMAIN stat.data_dict |->
        IF field \in DOMAIN moving.data_dict /\ field \in DOMAIN stat.data_dict
        THEN Concatenate(moving.data_dict[field], stat.data_dict[field])
        ELSE IF field \in DOMAIN moving.data_dict
        THEN Concatenate(moving.data_dict[field],
                         ZerosLike(moving.data_dict[field], stat.num_points))
        ELSE Concatenate(ZerosLike(stat.data_dict[field], moving.num_points),
                         stat.data_dict[field])]
\* some np.concatenate of the loop raises
CombineRaises(moving, stat) ==
    \E field \in DOMAIN moving.data_dict \cup DOMAIN stat.data_dict :
        IF field \in DOMAIN moving.data_dict /\ field \in DOMAIN stat.data_dict
        THEN ~CanConcatenate(moving.data_dict[field], stat.data_dict[field])
        ELSE IF field \in DOMAIN moving.data_dict
        THEN ~CanConcatenate(moving.data_dict[field],
                             ZerosLike(moving.data_dict[field], stat.num_points))
        ELSE ~CanConcatenate(ZerosLike(stat.data_dict[field], moving.num_points),
                             stat.data_dict[field])

\* save_to_hdf5 followed by create_xdmf_file for one surface: the two files
WriteSurface(re_number, surface, points, data_dict, num_points) ==
    (OutName(re_number, surface, ".xdmf") :>
        create_xdmf_file(OutName(re_number, surface, ".h5"), points, data_dict,
                         num_points))
    @@ (OutName(re_number, surface, ".h5") :> save_to_hdf5(points, data_dict))

\* lines 223-244 of merge_surfaces_to_xdmf, moving and stat being the triples
\* convert_csv_to_xdmf returned: the folder after the files of the two
\* surfaces are written (a write replaces an earlier file of the same name)
WriteSeparate(folder, re_number, moving, stat) ==
    WriteSurface(re_number, "_stat_walls", stat.points, stat.data_dict,
                 stat.num_points)
    @@ WriteSurface(re_number, "_moving_wall", moving.points, moving.data_dict,
                    moving.num_points)
    @@ folder

\* lines 223-284: the folder after the six files are written
WriteOutputs(folder, re_number, moving, stat) ==
    WriteSurface(re_number, "_combined", combined_points(moving, stat),
                 combined_data(moving, stat), moving.num_points + stat.num_points)
    @@ WriteSeparate(folder, re_number, moving, stat)

\* lines 219-289 of merge_surfaces_to_xdmf, moving and stat being the outcomes
\* of the two convert_csv_to_xdmf calls; the first raise ends the call
MergeConverted(folder, re_number, moving, stat) ==
    IF moving.kind = "raised" \/ stat.kind = "raised"
    THEN [outcome |-> Raised, folder |-> folder]
    ELSE IF moving.value.points = None \/ stat.value.points = None
    THEN [outcome |-> Returned(FALSE), folder |-> folder]
    ELSE IF CombineRaises(moving.value, stat.value)
    THEN [outcome |-> Raised,
          folder |-> WriteSeparate(folder, re_number, moving.value, stat.value)]
    ELSE [outcome |-> Returned(TRUE),
          folder |-> WriteOutputs(folder, re_number, moving.value, stat.value)]

\* merge_surfaces_to_xdmf(re_folder_path, re_number): the outcome of the call
\* and the folder it leaves.  A raise of convert_csv_to_xdmf comes before the
\* first file is written, a raise of np.concatenate after the fourth.
merge_surfaces_to_xdmf(folder, re_number) ==
    IF ~Exists(folder, CsvName("moving_wall_full_Re", re_number))
    THEN [outcome |-> Returned(FALSE), folder |-> folder]
    ELSE IF ~Exists(folder, CsvName("stat_walls_full_Re", re_number))
    THEN [outcome |-> Returned(FALSE), folder |-> folder]
    ELSE MergeConverted(folder, re_number,
            convert_csv_to_xdmf(CsvName("moving_wall_full_Re", re_number),
                                folder[CsvName("moving_wall_full_Re", re_number)],
                                "moving", 1),
            convert_csv_to_xdmf(CsvName("stat_walls_full_Re", re_number),
                                folder[CsvName("stat_walls_full_Re", re_number)],
                                "stationary", 0))

(***************************************************************************)
(* verify_xdmf_files.py                                                    *)
(* The results directory maps the name of each entry (its characters) to   *)
(* [isdir, files].                                                         *)
(***************************************************************************)
Dir(files) == [isdir |-> TRUE, files |-> files]
PlainFile == [isdir |-> FALSE, files |-> <<>>]

StartsWithRe(name) == Len(name) >= 2 /\ name[1] = "R" /\ name[2] = "e"
EndsWith(name, ext) == name # <<>> /\ name[Len(name)] = ext

\* glob(base_path/Re*/*.xdmf): pairs <<folder, file>>
XdmfFilesOf(base) ==
    UNION {{<<d, n>> : n \in {m \in DOMAIN base[d].files : EndsWith(m, ".xdmf")}} :
            d \in {e \in DOMAIN base : base[e].isdir /\ StartsWithRe(e)}}

HasColon(text) == \E i \in DOMAIN text : text[i] = ":"
\* text.split(':')[0]
BeforeColon(text) ==
    SubSeq(text, 1, (CHOOSE i \in DOMAIN text :
                        text[i] = ":" /\ \A j \in 1..(i - 1) : text[j] # ":") - 1)

IsHdfRef(item) == item.Format = "HDF" /\ HasColon(item.text)

\* the text of the first DataItem in document order that has Format="HDF" and
\* a ':' in its text; <<>> when there is none
FirstHdfText(xdmf) ==
    IF IsHdfRef(xdmf.geometry) THEN xdmf.geometry.text
    ELSE IF \E f \in DOMAIN xdmf.attributes : IsHdfRef(xdmf.attributes[f])
    THEN xdmf.attributes[CHOOSE f \in DOMAIN xdmf.attributes :
                            IsHdfRef(xdmf.attributes[f])].text
    ELSE <<>>

\* the verdict of the loop body on one XDMF file of a folder
VerifyOne(folder, file_name) ==
    LET content == folder[file_name] IN
    IF content.type # "xdmf" THEN "xml_errors"            \* ET.parse raises
    ELSE
    LET text == FirstHdfText(content)
        h5_filename == IF text = <<>> THEN <<>> ELSE BeforeColon(text)
    IN  IF h5_filename = <<>> THEN "xml_errors"
        ELSE IF ~Exists(folder, h5_filename) THEN "missing_h5_files"
        ELSE IF folder[h5_filename].type # "h5" THEN "h5_errors"   \* h5py raises
        ELSE IF "coordinates" \notin DOMAIN folder[h5_filename].datasets
        THEN "h5_errors"
        ELSE "valid_files"

verify_xdmf_files(base) ==
    LET xdmf_files == XdmfFilesOf(base)
        verdict == [x \in xdmf_files |-> VerifyOne(base[x[1]].files, x[2])]
        Count(v) == Cardinality({x \in xdmf_files : verdict[x] = v})
    IN  [total_files |-> Cardinality(xdmf_files),
         valid_files |-> Count("valid_files"),
         invalid_files |-> 0,
         missing_h5_files |-> Count("missing_h5_files"),
         xml_errors |-> Count("xml_errors"),
         h5_errors |-> Count("h5_errors"),
         verdict |-> verdict]

(***************************************************************************)
(* Script test_converter.py (one call of merge_surfaces_to_xdmf on one     *)
(* folder), followed by verify_xdmf_files.py on the results directory      *)
(***************************************************************************)
ReNumbers == {<<"1", "0", "0">>}
ReFolder(re_number) == <<"R", "e">> \o re_number

Surfaces == {"_moving_wall", "_stat_walls", "_combined"}
OutputNames(re_number) ==
    {OutName(re_number, sf, ext) : sf \in Surfaces, ext \in {".h5", ".xdmf"}}

Absent == [type |-> "absent"]

\* the folder holding the two CSV files (unless absent) and, when stale, old
\* files under the six output names
FolderWith(re_number, moving, stat, stale) ==
    LET m == CsvName("moving_wall_full_Re", re_number)
        t == CsvName("stat_walls_full_Re", re_number)
        names == (IF moving = Absent THEN {} ELSE {m})
                 \cup (IF stat = Absent THEN {} ELSE {t})
                 \cup (IF stale THEN OutputNames(re_number) ELSE {})
    IN  [n \in names |-> IF n = m THEN moving ELSE IF n = t THEN stat ELSE OldFile]

InitMerge ==
    /\ pc = "test_single_folder"
    /\ \E N \in ReNumbers, moving \in CsvFiles \cup {Absent},
          stat \in CsvFiles \cup {Absent}, stale \in BOOLEAN :
          /\ args = [re_folder_path |-> ReFolder(N), re_number |-> N]
          /\ disk = (ReFolder(N) :> Dir(FolderWith(N, moving, stat, stale)))
    /\ result = NotCalled
    /\ re_folders = Idle
    /\ done_log = Idle
    /\ successful_conversions = 0
    /\ failed_conversions = 0
    /\ verification_results = Idle

\* test_single_folder: success = merge_surfaces_to_xdmf(re_folder_path, re_number)
TestSingleFolder ==
    /\ pc = "test_single_folder"
    /\ \E m \in {merge_surfaces_to_xdmf(disk[args.re_folder_path].files,
                                        args.re_number)} :
          /\ result' = m.outcome
          /\ disk' = [disk EXCEPT ![args.re_folder_path].files = m.folder]
    /\ pc' = "merged"
    /\ UNCHANGED <<args, re_folders, done_log, successful_conversions,
                   failed_conversions, verification_results>>

VerifyXdmfFiles ==
    /\ pc = "merged"
    /\ verification_results' = verify_xdmf_files(disk)
    /\ pc' = "verified"
    /\ UNCHANGED <<args, result, disk, re_folders, done_log,
                   successful_conversions, failed_conversions>>

NextMerge == TestSingleFolder \/ VerifyXdmfFiles

SpecMerge == InitMerge /\ [][NextMerge]_vars


(***************************************************************************)
(* Properties of merge_surfaces_to_xdmf                                    *)
(***************************************************************************)
TheFolder == disk[args.re_folder_path].files
MovingCsv == CsvName("moving_wall_full_Re", args.re_number)
StatCsv == CsvName("stat_walls_full_Re", args.re_number)
H5Of(surface) == OutName(args.re_number, surface, ".h5")
XdmfOf(surface) == OutName(args.re_number, surface, ".xdmf")

Merged == pc \in {"merged", "verified"}
MergedOk == Merged /\ result = Returned(TRUE)

\* a CSV file that exists, can be read and has an x and a y coordinate column
HasXY(file) ==
    /\ \E i \in DOMAIN file.header : file.header[i] \in {"x-coordinate", "x"}
    /\ \E i \in DOMAIN file.header : file.header[i] \in {"y-coordinate", "y"}
Usable(folder, name) ==
    Exists(folder, name) /\ folder[name].readable /\ HasXY(folder[name])

ProducedFiles(folder) ==
    {n \in DOMAIN folder : folder[n].type \in {"h5", "xdmf"}}

\* C1: with both CSV files present, readable and holding x and y columns,
\* merge_surfaces_to_xdmf returns True and leaves exactly the six outputs
\* Re<N>_moving_wall, Re<N>_stat_walls, Re<N>_combined as .h5 and .xdmf.
C1_MergeWritesSixOutputs ==
    [][(pc = "test_single_folder"
        /\ Usable(TheFolder, MovingCsv) /\ Usable(TheFolder, StatCsv))
       => /\ result' = Returned(TRUE)
          /\ ProducedFiles(TheFolder') = OutputNames(args.re_number)
          /\ \A sf \in Surfaces :
                /\ TheFolder'[H5Of(sf)].type = "h5"
                /\ TheFolder'[XdmfOf(sf)].type = "xdmf"
          /\ DOMAIN TheFolder' = DOMAIN TheFolder \cup OutputNames(args.re_number)]_vars

\* C2: when either CSV file is missing, cannot be read or lacks an x or y
\* column, merge_surfaces_to_xdmf returns False and creates or changes no file.
C2_BadInputReturnsFalse ==
    [][(pc = "test_single_folder"
        /\ (~Usable(TheFolder, MovingCsv) \/ ~Usable(TheFolder, StatCsv)))
       => /\ result' = Returned(FALSE)
          /\ disk' = disk]_vars

PartOf(datasets, f, count) ==
    IF f \in DOMAIN datasets THEN datasets[f].vals ELSE Full(count, 0)
\* the entries of vals come from file csv_name, row by row
RowsOf(vals, csv_name) ==
    \A i \in DOMAIN vals : vals[i] = Lit(0) \/ (vals[i].f = csv_name /\ vals[i].r = i)

\* C5: every combined field holds the moving-wall entries first and the
\* stationary-wall entries after them, in the order of the coordinate rows; a
\* field one surface lacks is zero, in the field's own type, for the points of
\* that surface; wall_id is 1 on the moving-wall points and 0 on the others.
C5_CombinedOrder ==
    MergedOk =>
        LET mc == TheFolder[MovingCsv].n
            sc == TheFolder[StatCsv].n
            c == TheFolder[H5Of("_combined")].datasets
            m == TheFolder[H5Of("_moving_wall")].datasets
            t == TheFolder[H5Of("_stat_walls")].datasets
        IN  /\ c["coordinates"].rows = m["coordinates"].rows \o t["coordinates"].rows
            /\ \A i \in 1..(mc + sc) :
                  LET row == c["coordinates"].rows[i]
                  IN  IF i <= mc
                      THEN row[1].f = MovingCsv /\ row[1].r = i
                           /\ row[2].f = MovingCsv /\ row[2].r = i
                      ELSE row[1].f = StatCsv /\ row[1].r = i - mc
                           /\ row[2].f = StatCsv /\ row[2].r = i - mc
            /\ \A f \in DOMAIN c \ {"coordinates"} :
                  /\ c[f].vals = PartOf(m, f, mc) \o PartOf(t, f, sc)
                  /\ f \notin {"wall_id", "wall_type"} =>
                        /\ RowsOf(SubSeq(c[f].vals, 1, mc), MovingCsv)
                        /\ RowsOf(SubSeq(c[f].vals, mc + 1, mc + sc), StatCsv)
                  /\ c[f].dtype = IF f \in DOMAIN m THEN m[f].dtype ELSE t[f].dtype
                  /\ c[f].dtype = IF f \in scalar_fields THEN "float64" ELSE "int32"
            /\ \A i \in 1..(mc + sc) :
                  c["wall_id"].vals[i] = IF i <= mc THEN Lit(1) ELSE Lit(0)

C5_Witness ==
    /\ MergedOk
    /\ TheFolder[MovingCsv].n = MaxRows
    /\ TheFolder[StatCsv].n = 1
    /\ "wall_shear_magnitude" \in DOMAIN TheFolder[H5Of("_stat_walls")].datasets
    /\ "wall_shear_magnitude" \notin DOMAIN TheFolder[H5Of("_moving_wall")].datasets
    /\ "cell_id" \in DOMAIN TheFolder[H5Of("_moving_wall")].datasets
    /\ "cell_id" \notin DOMAIN TheFolder[H5Of("_stat_walls")].datasets

C7_VerifierAcceptsOutputs ==
    (pc = "verified" /\ result = Returned(TRUE)) =>
        /\ \A sf \in Surfaces :
              /\ <<args.re_folder_path, XdmfOf(sf)>>
                    \in DOMAIN verification_results.verdict
              /\ verification_results.verdict[<<args.re_folder_path, XdmfOf(sf)>>]
                    = "valid_files"
        /\ verification_results.valid_files = Cardinality(Surfaces)
        /\ verification_results.valid_files = verification_results.total_files

C7_Witness ==
    /\ pc = "verified"
    /\ result = Returned(TRUE)
    /\ TheFolder[StatCsv].n = MaxRows
    /\ verification_results.total_files = 3


(***************************************************************************)
(* process_all_reynolds_folders(base_path)                                 *)
(***************************************************************************)
DigitValue(c) == IF c = "1" THEN 1 ELSE 0

RECURSIVE ToInt(_)
\* int(re_number)
ToInt(digits) ==
    IF digits = <<>> THEN 0
    ELSE 10 * ToInt(SubSeq(digits, 1, Len(digits) - 1)) + DigitValue(digits[Len(digits)])

RECURSIVE FoundFolders(_, _)
\* lines 316-322: the entries of the listing that are directories, start with
\* 'Re' and have a Reynolds number, as (folder name, re_number)
FoundFolders(base, listing) ==
    IF listing = <<>> THEN <<>>
    ELSE LET item == Head(listing)
             re_number == extract_reynolds_number(item)
             rest == FoundFolders(base, Tail(listing))
         IN  IF base[item].isdir /\ StartsWithRe(item) /\ re_number # None
             THEN <<[folder_name |-> item, re_number |-> re_number.some]>> \o rest
             ELSE rest

\* the folders left in the order of the listing
SortByRe_Unsorted(folders) == folders

RECURSIVE SortByRe(_)
\* list.sort(key=lambda x: int(x[1])): stable, ascending
SortByRe(folders) ==
    IF folders = <<>> THEN <<>>
    ELSE LET last == folders[Len(folders)]
             init == SortByRe(SubSeq(folders, 1, Len(folders) - 1))
             before == SelectSeq(init, LAMBDA f :
                            ToInt(f.re_number) <= ToInt(last.re_number))
             after == SelectSeq(init, LAMBDA f :
                            ToInt(f.re_number) > ToInt(last.re_number))
         IN  before \o <<last>> \o after

\* os.listdir returns the entries in an arbitrary order
Listings(base) ==
    {l \in [1..Cardinality(DOMAIN base) -> DOMAIN base] :
        \A i, j \in DOMAIN l : i # j => l[i] # l[j]}

\* the entries the results directory may hold
EntryNames ==
    {<<"R", "e", "1", "1">>, <<"R", "e", "1", "0", "0">>,
     <<"R", "e", "1", "1", "-", "1", "a">>, <<"R", "e", "a">>}

GoodCsv(n) == CsvFile(Header({"cellnumber", "x-coordinate", "y-coordinate", "wall-shear"}),
                      n, FALSE)
TwiceXCsv == CsvFile(Header({"x-coordinate", "y-coordinate", "x"}), 1, FALSE)
TwiceShearCsv ==
    CsvFile(Header({"x-coordinate", "y-coordinate", "wall-shear",
                    "wall_shear_magnitude"}), 1, FALSE)

\* what a folder of Reynolds number re_number may hold
FolderKinds(re_number) ==
    {FolderWith(re_number, GoodCsv(1), GoodCsv(2), FALSE),
     FolderWith(re_number, GoodCsv(1), Absent, TRUE),
     FolderWith(re_number, TwiceXCsv, GoodCsv(1), FALSE),
     FolderWith(re_number, GoodCsv(1), TwiceShearCsv, FALSE)}

\* an entry is a plain file or a folder holding files named after the digits
\* its name carries
Entries(name) ==
    {PlainFile} \cup {Dir(f) : f \in FolderKinds(ReDigits(name))}

Init ==
    /\ pc = "process_all_reynolds_folders"
    /\ \E present \in SUBSET EntryNames :
          disk \in [present -> UNION {Entries(n) : n \in present}]
          /\ \A n \in present : disk[n] \in Entries(n)
    /\ args = Idle
    /\ result = NotCalled
    /\ re_folders = <<>>
    /\ done_log = <<>>
    /\ successful_conversions = 0
    /\ failed_conversions = 0
    /\ verification_results = Idle

\* lines 313-330: list, filter, sort, reset the counters
ScanFolders ==
    /\ pc = "process_all_reynolds_folders"
    /\ \E listing \in Listings(disk) :
          re_folders' = SortByRe(FoundFolders(disk, listing))
    /\ successful_conversions' = 0
    /\ failed_conversions' = 0
    /\ done_log' = <<>>
    /\ pc' = "for"
    /\ UNCHANGED <<args, result, disk, verification_results>>

\* lines 332-343: one turn of the loop, the call of merge_surfaces_to_xdmf
\* inside try/except included
ProcessFolder ==
    /\ pc = "for"
    /\ Len(done_log) < Len(re_folders)
    /\ LET next == re_folders[Len(done_log) + 1] IN
       \E m \in {merge_surfaces_to_xdmf(disk[next.folder_name].files, next.re_number)} :
          /\ disk' = [disk EXCEPT ![next.folder_name].files = m.folder]
          /\ IF m.outcome = Returned(TRUE)
             THEN /\ successful_conversions' = successful_conversions + 1
                  /\ failed_conversions' = failed_conversions
             ELSE /\ successful_conversions' = successful_conversions
                  /\ failed_conversions' = failed_conversions + 1
          /\ done_log' = Append(done_log, [folder_name |-> next.folder_name,
                                           re_number |-> next.re_number,
                                           outcome |-> m.outcome])
    /\ UNCHANGED <<pc, args, result, re_folders, verification_results>>

\* lines 345-355: the loop is over, the summary is printed
PrintSummary ==
    /\ pc = "for"
    /\ Len(done_log) = Len(re_folders)
    /\ pc' = "done"
    /\ UNCHANGED <<args, result, dirVars>>

Next == ScanFolders \/ ProcessFolder \/ PrintSummary

Spec == Init /\ [][Next]_vars


\* the directories whose name extract_reynolds_number accepts
AcceptedFolders(base) ==
    {d \in DOMAIN base : base[d].isdir /\ extract_reynolds_number(d) # None}

Successes == {i \in DOMAIN done_log : done_log[i].outcome = Returned(TRUE)}
Failures == {i \in DOMAIN done_log : done_log[i].outcome # Returned(TRUE)}

\* C8: process_all_reynolds_folders hands every directory whose name
\* extract_reynolds_number accepts to merge_surfaces_to_xdmf exactly once, in
\* ascending numeric order of the Reynolds number; a False or a raise counts as
\* a failed conversion and the loop goes on; at the end successful_conversions
\* + failed_conversions is the number of folders found.
C8_EveryFolderOnceInOrder ==
    /\ pc \in {"for", "done"} =>
          /\ \A i, j \in DOMAIN done_log :
                i < j => /\ ToInt(done_log[i].re_number) <= ToInt(done_log[j].re_number)
                         /\ done_log[i].folder_name # done_log[j].folder_name
          /\ \A i \in DOMAIN done_log :
                /\ done_log[i].folder_name \in AcceptedFolders(disk)
                /\ Some(done_log[i].re_number)
                      = extract_reynolds_number(done_log[i].folder_name)
          /\ successful_conversions = Cardinality(Successes)
          /\ failed_conversions = Cardinality(Failures)
    /\ pc = "done" =>
          /\ {done_log[i].folder_name : i \in DOMAIN done_log} = AcceptedFolders(disk)
          /\ successful_conversions + failed_conversions
                = Cardinality(AcceptedFolders(disk))
          /\ Len(re_folders) = Cardinality(AcceptedFolders(disk))

C8_Witness ==
    /\ pc = "done"
    /\ Len(done_log) = 3
    /\ done_log[1].outcome = Raised
    /\ done_log[2].outcome = Returned(FALSE)
    /\ done_log[3].outcome = Returned(TRUE)
    /\ successful_conversions = 1
    /\ failed_conversions = 2


(***************************************************************************)
(* wall_shear_plotter_line.calculate_surface_coordinate(x, y, wall_type)   *)
(* on the unit cavity; lengths are integers, UNIT to the metre.  The name  *)
(* carries the prefix wsp_ because plotta.py has a function of the same    *)
(* name.                                                                   *)
(***************************************************************************)
\* the function with the left wall running from the top down
wsp_calculate_surface_coordinate_LeftDown(x, y, wall_type) ==
    IF wall_type = "moving_wall" THEN Returned(Num(x))
    ELSE IF wall_type = "right" THEN Returned(Num(UNIT + (UNIT - y)))
    ELSE IF wall_type = "bottom" THEN Returned(Num(2 * UNIT + (UNIT - x)))
    ELSE IF wall_type = "left" THEN Returned(Num(3 * UNIT + (UNIT - y)))
    ELSE Raised

\* no branch assigns s for another wall_type: return s raises
\* UnboundLocalError
wsp_calculate_surface_coordinate(x, y, wall_type) ==
    IF wall_type = "moving_wall" THEN Returned(Num(x))
    ELSE IF wall_type = "right" THEN Returned(Num(UNIT + (UNIT - y)))
    ELSE IF wall_type = "bottom" THEN Returned(Num(2 * UNIT + (UNIT - x)))
    ELSE IF wall_type = "left" THEN Returned(Num(3 * UNIT + y))
    ELSE Raised

\* the names the plotting code passes, and one it does not
WspWalls == <<"moving_wall", "right", "bottom", "left">>
WspWallTypes == {WspWalls[i] : i \in DOMAIN WspWalls} \cup {"top"}

InitWsp ==
    /\ pc = "wsp_calculate_surface_coordinate"
    /\ \E x \in XCoords, y \in YCoords(UNIT), w \in WspWallTypes :
          args = [x |-> x, y |-> y, wall_type |-> w]
    /\ result = NotCalled
    /\ disk = Idle
    /\ re_folders = Idle
    /\ done_log = Idle
    /\ successful_conversions = 0
    /\ failed_conversions = 0
    /\ verification_results = Idle

CallWspSurfaceCoordinate ==
    /\ pc = "wsp_calculate_surface_coordinate"
    /\ result' = wsp_calculate_surface_coordinate(args.x, args.y, args.wall_type)
    /\ pc' = "done"
    /\ UNCHANGED <<args, dirVars>>

NextWsp == CallWspSurfaceCoordinate

SpecWsp == InitWsp /\ [][NextWsp]_vars

\* the point (x, y) lies on the wall of the unit cavity that w names
OnWall(x, y, w) ==
    /\ 0 <= x /\ x <= UNIT /\ 0 <= y /\ y <= UNIT
    /\ CASE w = "moving_wall" -> y = UNIT
         [] w = "right" -> x = UNIT
         [] w = "bottom" -> y = 0
         [] w = "left" -> x = 0
         [] OTHER -> FALSE

WallIndex(w) == CHOOSE i \in DOMAIN WspWalls : WspWalls[i] = w
\* the distance walked on wall w from its first corner to (x, y), the path
\* being (0,1) -> (1,1) -> (1,0) -> (0,0) -> (0,1)
AlongWall(x, y, w) ==
    CASE w = "moving_wall" -> x
      [] w = "right" -> UNIT - y
      [] w = "bottom" -> UNIT - x
      [] w = "left" -> y
\* (x1, y1) on wall w1 comes no later on the path than (x2, y2) on wall w2
PathBefore(x1, y1, w1, x2, y2, w2) ==
    \/ WallIndex(w1) < WallIndex(w2)
    \/ w1 = w2 /\ AlongWall(x1, y1, w1) <= AlongWall(x2, y2, w2)

MaxCfdRows == 2

nu == 1004
L == 1

CfdCoords == {0, 1, 2}
CfdVelocities == {-1, 0, 1}
CfdReynolds == {100, 1000}

\* a / b in floating point, b >= 0
Quotient(a, b) ==
    IF b # 0 THEN [num |-> a, den |-> b]
    ELSE IF a = 0 THEN NaN
    ELSE [inf |-> IF a > 0 THEN 1 ELSE -1]

\* Series.min() and Series.max(); NaN for an empty column
Min(S) == IF S = {} THEN NaN ELSE Num(CHOOSE m \in S : \A n \in S : m <= n)
SeriesMax(S) == IF S = {} THEN NaN ELSE Num(Max(S))

\* (column - lo) / (hi - lo), row by row
NormalizeCoordinate(c, lo, hi) == Quotient(c - lo.num, hi.num - lo.num)

normalize_cfd_data(v_center, h_center, Re) ==
    LET U_lid == Quotient(Re * nu, L)
        y_min == Min({v_center[i].y : i \in DOMAIN v_center})
        y_max == SeriesMax({v_center[i].y : i \in DOMAIN v_center})
        x_min == Min({h_center[i].x : i \in DOMAIN h_center})
        x_max == SeriesMax({h_center[i].x : i \in DOMAIN h_center})
    IN  [v_center |->
            [i \in DOMAIN v_center |->
                [y |-> v_center[i].y, u |-> v_center[i].u,
                 y_norm |-> NormalizeCoordinate(v_center[i].y, y_min, y_max),
                 u_norm |-> Quotient(v_center[i].u * U_lid.den, U_lid.num)]],
         h_center |->
            [i \in DOMAIN h_center |->
                [x |-> h_center[i].x, v |-> h_center[i].v,
                 x_norm |-> NormalizeCoordinate(h_center[i].x, x_min, x_max),
                 v_norm |-> Quotient(h_center[i].v * U_lid.den, U_lid.num)]]]

VFrames ==
    UNION {[1..n -> [y : CfdCoords, u : CfdVelocities]] : n \in 0..MaxCfdRows}
HFrames ==
    UNION {[1..n -> [x : CfdCoords, v : CfdVelocities]] : n \in 0..MaxCfdRows}

InitNormalize ==
    /\ pc = "normalize_cfd_data"
    /\ \E v \in VFrames, h \in HFrames, Re \in CfdReynolds :
          args = [v_center |-> v, h_center |-> h, Re |-> Re]
    /\ result = NotCalled
    /\ disk = Idle
    /\ re_folders = Idle
    /\ done_log = Idle
    /\ successful_conversions = 0
    /\ failed_conversions = 0
    /\ verification_results = Idle

CallNormalize ==
    /\ pc = "normalize_cfd_data"
    /\ result' = Returned(normalize_cfd_data(args.v_center, args.h_center, args.Re))
    /\ pc' = "done"
    /\ UNCHANGED <<args, dirVars>>

NextNormalize == CallNormalize

SpecNormalize == InitNormalize /\ [][NextNormalize]_vars

\* q is a number of [0, 1], is 0, is 1
IsQuotient(q) == DOMAIN q = {"num", "den"}
InUnitInterval(q) == IsQuotient(q) /\ 0 <= q.num /\ q.num <= q.den
IsZero(q) == IsQuotient(q) /\ q.num = 0
IsOne(q) == IsQuotient(q) /\ q.num = q.den
\* q = a / (Re * nu / L)
IsOverLid(q, a, Re) == IsQuotient(q) /\ q.num * (Re * nu) = a * L * q.den

\* C12: every normalized coordinate lies in [0, 1], the smallest coordinate of
\* a frame is mapped to 0 and the largest to 1, and each normalized velocity is
\* the raw velocity divided by U_lid = Re * nu / L.
C12_NormalizedRanges ==
    pc = "done" =>
        LET v == result.value.v_center
            h == result.value.h_center
        IN  /\ \A i \in DOMAIN v :
                  /\ InUnitInterval(v[i].y_norm)
                  /\ (\A j \in DOMAIN v : v[i].y <= v[j].y) => IsZero(v[i].y_norm)
                  /\ (\A j \in DOMAIN v : v[i].y >= v[j].y) => IsOne(v[i].y_norm)
                  /\ IsOverLid(v[i].u_norm, v[i].u, args.Re)
            /\ \A i \in DOMAIN h :
                  /\ InUnitInterval(h[i].x_norm)
                  /\ (\A j \in DOMAIN h : h[i].x <= h[j].x) => IsZero(h[i].x_norm)
                  /\ (\A j \in DOMAIN h : h[i].x >= h[j].x) => IsOne(h[i].x_norm)
                  /\ IsOverLid(h[i].v_norm, h[i].v, args.Re)


(***************************************************************************)
(* analyze_results.CFDResultsAnalyzer.__init__ / load_simulation_matrix    *)
(* The results directory maps the names matching AR_* to what they are: a  *)
(* plain file, or a directory with the set of its entries matching Re_*.   *)
(* A name is the sequence of the pieces str.replace looks for.             *)
(***************************************************************************)
\* the names in the order sorted() gives them ('1' < '2' < 'x')
ArNames == <<(<<"AR_", "1", "x1">>), (<<"AR_", "2", "x1">>), (<<"AR_", "x1">>)>>
ReNames == <<(<<"Re_", "100">>), (<<"Re_", "400">>)>>

ArEntries ==
    {[isdir |-> FALSE, re_dirs |-> {}]}
    \cup {[isdir |-> TRUE, re_dirs |-> R] :
            R \in SUBSET {ReNames[i] : i \in DOMAIN ReNames}}

\* name.replace(old, '')
Replace(name, old) == SelectSeq(name, LAMBDA piece : piece # old)

\* float(ar_str) and int(re_str): None stands for ValueError
ParseNumber(str) ==
    IF str = <<"1">> THEN Some(1)
    ELSE IF str = <<"2">> THEN Some(2)
    ELSE IF str = <<"100">> THEN Some(100)
    ELSE IF str = <<"400">> THEN Some(400)
    ELSE None

\* sorted(path.glob(pattern)): the names present, in order
SortedGlob(order, present) == SelectSeq(order, LAMBDA n : n \in present)

RECURSIVE load_simulation_matrix(_, _, _)
\* the loop over ar_dirs, self being [aspect_ratios, reynolds_numbers]
load_simulation_matrix(results_dir, ar_dirs, self) ==
    IF ar_dirs = <<>> THEN Returned(self)
    ELSE
    LET ar_dir == Head(ar_dirs)
        ar == ParseNumber(Replace(Replace(ar_dir, "AR_"), "x1"))
        re_dirs == SortedGlob(ReNames, results_dir[ar_dir].re_dirs)
        numbers == [i \in DOMAIN re_dirs |-> ParseNumber(Replace(re_dirs[i], "Re_")).some]
    IN  IF ar = None THEN Raised
        ELSE load_simulation_matrix(results_dir, Tail(ar_dirs),
                [aspect_ratios |-> Append(self.aspect_ratios, ar.some),
                 reynolds_numbers |->
                    IF self.reynolds_numbers = <<>> THEN numbers
                    ELSE self.reynolds_numbers])

\* CFDResultsAnalyzer(results_dir)
CFDResultsAnalyzer(results_dir) ==
    load_simulation_matrix(results_dir, SortedGlob(ArNames, DOMAIN results_dir),
                           [aspect_ratios |-> <<>>, reynolds_numbers |-> <<>>])

InitAnalyzer ==
    /\ pc = "CFDResultsAnalyzer"
    /\ \E present \in SUBSET {ArNames[i] : i \in DOMAIN ArNames} :
          disk \in [present -> ArEntries]
    /\ args = Idle
    /\ result = NotCalled
    /\ re_folders = Idle
    /\ done_log = Idle
    /\ successful_conversions = 0
    /\ failed_conversions = 0
    /\ verification_results = Idle

Construct ==
    /\ pc = "CFDResultsAnalyzer"
    /\ result' = CFDResultsAnalyzer(disk)
    /\ pc' = "constructed"
    /\ UNCHANGED <<args, dirVars>>

NextAnalyzer == Construct

SpecAnalyzer == InitAnalyzer /\ [][NextAnalyzer]_vars

ArDirectories == {n \in DOMAIN disk : disk[n].isdir}
\* the Reynolds numbers of the Re_* entries under any AR_* directory
ReynoldsUnderAny ==
    {ParseNumber(Replace(r, "Re_")).some :
        r \in UNION {disk[n].re_dirs : n \in ArDirectories}}

\* C13: once a CFDResultsAnalyzer is constructed, aspect_ratios has one entry
\* per AR_* directory and reynolds_numbers holds every Reynolds number that
\* has a Re_* directory under any AR_* directory.
C13_MatrixDiscovered ==
    (pc = "constructed" /\ result.kind = "returned") =>
        /\ Len(result.value.aspect_ratios) = Cardinality(ArDirectories)
        /\ ReynoldsUnderAny \subseteq
              {result.value.reynolds_numbers[i] :
                  i \in DOMAIN result.value.reynolds_numbers}


(***************************************************************************)
(* analyze_results.CFDResultsAnalyzer.analyze_vortex_center(ar, re)        *)
(* A centerline file is missing, unreadable, or a table: whether it has    *)
(* the coordinate and velocity columns the method reads, and its rows      *)
(* [c, vel] (coordinate, velocity).                                        *)
(***************************************************************************)
MaxProfileRows == 3

ProfileCoords == {0, 1}
ProfileVelocities == {-1, 0, 1}

Table(columns, rows) == [type |-> "csv", readable |-> TRUE, columns |-> columns, rows |-> rows]
MissingFile == [type |-> "absent", readable |-> FALSE, columns |-> FALSE, rows |-> <<>>]
UnreadableFile == [type |-> "csv", readable |-> FALSE, columns |-> FALSE, rows |-> <<>>]

ProfileRows ==
    UNION {[1..n -> [c : ProfileCoords, vel : ProfileVelocities]] :
              n \in 0..MaxProfileRows}
CenterlineFiles ==
    {MissingFile, UnreadableFile, Table(FALSE, <<>>)}
    \cup {Table(TRUE, rows) : rows \in ProfileRows}

\* load_centerline_data: None when the file is not there or read_csv raises
load_centerline_data(file) ==
    IF file.type = "absent" \/ ~file.readable THEN None
    ELSE Some([columns |-> file.columns, rows |-> file.rows])

\* np.sign
Sign(n) == IF n > 0 THEN 1 ELSE IF n < 0 THEN -1 ELSE 0

\* np.where(np.diff(np.sign(vel)))[0]: the indices (from 1) whose successor
\* has another sign value
ZeroCrossings(rows) ==
    {i \in 1..(Len(rows) - 1) : Sign(rows[i + 1].vel) - Sign(rows[i].vel) # 0}

\* one half of analyze_vortex_center: the coordinate of the crossing
VortexCoordinate(df) ==
    IF ~df.columns THEN None
    ELSE IF ZeroCrossings(df.rows) # {}
    THEN LET idx == Min(ZeroCrossings(df.rows)).num
         IN  Some(Quotient(df.rows[idx].c + df.rows[idx + 1].c, 2))
    ELSE None

analyze_vortex_center(vertical, horizontal, ar, re) ==
    LET df_v == load_centerline_data(vertical)
        df_h == load_centerline_data(horizontal)
    IN  IF df_v = None \/ df_h = None THEN None
        ELSE Some([x |-> VortexCoordinate(df_h.some),
                   y |-> VortexCoordinate(df_v.some),
                   ar |-> ar, re |-> re])

InitVortex ==
    /\ pc = "analyze_vortex_center"
    /\ \E v \in CenterlineFiles, h \in CenterlineFiles :
          /\ args = [ar |-> 1, re |-> 100]
          /\ disk = [vertical |-> v, horizontal |-> h]
    /\ result = NotCalled
    /\ re_folders = Idle
    /\ done_log = Idle
    /\ successful_conversions = 0
    /\ failed_conversions = 0
    /\ verification_results = Idle

CallAnalyzeVortexCenter ==
    /\ pc = "analyze_vortex_center"
    /\ result' = Returned(analyze_vortex_center(disk.vertical, disk.horizontal,
                                                args.ar, args.re))
    /\ pc' = "done"
    /\ UNCHANGED <<args, dirVars>>

NextVortex == CallAnalyzeVortexCenter

SpecVortex == InitVortex /\ [][NextVortex]_vars

Loadable(file) == file.type = "csv" /\ file.readable
\* the indices of the consecutive samples of strictly opposite signs
OppositeSigns(rows) ==
    {i \in 1..(Len(rows) - 1) : rows[i].vel * rows[i + 1].vel < 0}
\* the midpoint the claim names, None when the velocity never changes sign
FirstCrossingMidpoint(rows) ==
    IF OppositeSigns(rows) = {} THEN None
    ELSE LET i == Min(OppositeSigns(rows)).num
         IN  Some(Quotient(rows[i].c + rows[i + 1].c, 2))

\* C14: analyze_vortex_center returns None when a centerline file cannot be
\* loaded; otherwise the vortex y (x) it reports is the midpoint of the first
\* two consecutive samples whose u (v) velocities have strictly opposite
\* signs, and None when the velocity never changes sign.
C14_VortexAtFirstCrossing ==
    pc = "done" =>
        IF ~Loadable(disk.vertical) \/ ~Loadable(disk.horizontal)
        THEN result.value = None
        ELSE /\ result.value # None
             /\ disk.vertical.columns =>
                   result.value.some.y = FirstCrossingMidpoint(disk.vertical.rows)
             /\ disk.horizontal.columns =>
                   result.value.some.x = FirstCrossingMidpoint(disk.horizontal.rows)


(***************************************************************************)
(* LidDrivenCavity/misc_scripts/summary_results.py (a script without       *)
(* functions).  disk holds the file the glob pattern names, absent or the  *)
(* lines of tokens it contains, and the summary file.  A path is the       *)
(* sequence of its characters.                                             *)
(***************************************************************************)
MaxWssLines == 2
MaxWssTokens == 2

WssTokens == {"1.5", "abc"}
WssLines == UNION {[1..n -> WssTokens] : n \in 0..MaxWssTokens}
WssContents == UNION {[1..n -> WssLines] : n \in 0..MaxWssLines}
WssFile(lines) == [type |-> "txt", lines |-> lines]
SummaryFile(rows) == [type |-> "csv", rows |-> rows]

\* the pattern of line 4; it holds no wildcard
WssPattern ==
    <<"r", "e", "s", "u", "l", "t", "s", "/", "R", "e", "/",
      "W", "S", "S", "_", ".", "t", "x", "t">>

\* glob.glob(pattern) of a pattern without wildcard: the path, if it exists
GlobLiteral(pattern, exists) == IF exists THEN <<pattern>> ELSE <<>>

\* re.search(r'Re(\d+)', f): the first place where Re is followed by a digit,
\* group 1 being the digits that follow; None when there is no such place
ReSearch(f) ==
    LET starts == {i \in 1..(Len(f) - 2) :
                      f[i] = "R" /\ f[i + 1] = "e" /\ IsDigit(f[i + 2])}
    IN  IF starts = {} THEN None
        ELSE LET i == Min(starts).num
                 last == Max({j \in (i + 2)..Len(f) : AllDigits(f, i + 2, j)})
             IN  Some(SubSeq(f, i + 2, last))

\* float(token)
ParseFloat(token) == IF token = "1.5" THEN Some(token) ELSE None

\* line 7: f is the path, a str, and has no readlines: AttributeError, which
\* the bare except of line 8 turns into val = None whatever the file holds
WssValue(f, content) == None

\* lines 5-9 for one path: the row appended, or the raise of
\* re.search(...).group(1) on None
WssRow(f, content) ==
    IF ReSearch(f) = None THEN Raised
    ELSE Returned([Re |-> ToInt(ReSearch(f).some), WSS_avg |-> WssValue(f, content)])

RECURSIVE SortRowsByRe(_)
\* DataFrame.sort_values('Re')
SortRowsByRe(rows) ==
    IF rows = <<>> THEN <<>>
    ELSE LET last == rows[Len(rows)]
             init == SortRowsByRe(SubSeq(rows, 1, Len(rows) - 1))
         IN  SelectSeq(init, LAMBDA r : r.Re <= last.Re) \o <<last>>
             \o SelectSeq(init, LAMBDA r : r.Re > last.Re)

InitSummary ==
    /\ pc = "glob"
    /\ \E wss \in {WssFile(c) : c \in WssContents} \cup {Absent} :
          disk = [wss |-> wss, summary |-> Absent]
    /\ args = Idle
    /\ result = NotCalled
    /\ re_folders = <<>>
    /\ done_log = <<>>
    /\ successful_conversions = 0
    /\ failed_conversions = 0
    /\ verification_results = Idle

\* lines 3-4: rows = [], the glob
GlobWss ==
    /\ pc = "glob"
    /\ re_folders' = GlobLiteral(WssPattern, disk.wss # Absent)
    /\ done_log' = <<>>
    /\ pc' = "for"
    /\ UNCHANGED <<args, result, disk, successful_conversions, failed_conversions,
                   verification_results>>

\* lines 5-9: one turn of the loop; an exception ends the script
ReadWss ==
    /\ pc = "for"
    /\ Len(done_log) < Len(re_folders)
    /\ \E row \in {WssRow(re_folders[Len(done_log) + 1], disk.wss)} :
          IF row.kind = "raised"
          THEN /\ pc' = "raised"
               /\ result' = Raised
               /\ UNCHANGED done_log
          ELSE /\ done_log' = Append(done_log, row.value)
               /\ UNCHANGED <<pc, result>>
    /\ UNCHANGED <<args, disk, re_folders, successful_conversions,
                   failed_conversions, verification_results>>

\* lines 11-12: sort_values('Re') raises KeyError on a frame without rows
\* (it has no column at all); otherwise the summary is written
WriteSummary ==
    /\ pc = "for"
    /\ Len(done_log) = Len(re_folders)
    /\ IF done_log = <<>>
       THEN /\ pc' = "raised"
            /\ result' = Raised
            /\ UNCHANGED disk
       ELSE /\ pc' = "done"
            /\ result' = Returned(None)
            /\ disk' = [disk EXCEPT !.summary = SummaryFile(SortRowsByRe(done_log))]
    /\ UNCHANGED <<args, re_folders, done_log, successful_conversions,
                   failed_conversions, verification_results>>

NextSummary == GlobWss \/ ReadWss \/ WriteSummary

SpecSummary == InitSummary /\ [][NextSummary]_vars

\* the value the claim names: the number the last token of the last line
\* stands for, None when it is no number
LastTokenValue(file) ==
    IF file.lines = <<>> \/ file.lines[Len(file.lines)] = <<>> THEN None
    ELSE ParseFloat(file.lines[Len(file.lines)][Len(file.lines[Len(file.lines)])])

\* C15: when the script has run, results/WSS_summary.csv is written with one
\* row per matched WSS file, sorted by Re ascending, WSS_avg being the number
\* of the last token of the file's last line, empty only when that token is no
\* number.
C15_SummaryWritten ==
    pc \in {"done", "raised"} =>
        /\ disk.summary # Absent
        /\ Len(disk.summary.rows) = Len(re_folders)
        /\ \A i, j \in DOMAIN disk.summary.rows :
              i < j => disk.summary.rows[i].Re <= disk.summary.rows[j].Re
        /\ \A i \in DOMAIN disk.summary.rows :
              disk.summary.rows[i].WSS_avg = LastTokenValue(disk.wss)


(***************************************************************************)
(* plotta.py: extract_residuals_from_log, plot_convergence, process_case   *)
(* A residual is a number in scientific notation, m x 10^e with one digit  *)
(* m (0 for zero), as the log prints it.  A residual history (the data     *)
(* frame) is described by what plot_convergence reads of it: its number of *)
(* rows and, per column, the last value, the smallest value and the ratio  *)
(* std/mean of the last 100 values.                                        *)
(***************************************************************************)
MaxLogLines == 3

Sci(m, e) == [m |-> m, e |-> e]
Zero == Sci(0, 0)
\* a < b
Less(a, b) ==
    IF a.m = 0 THEN b.m > 0
    ELSE IF b.m = 0 THEN FALSE
    ELSE a.e < b.e \/ (a.e = b.e /\ a.m < b.m)
Positive(a) == Less(Zero, a)
\* the smallest element of a non-empty set of residuals
Smallest(S) == CHOOSE a \in S : \A b \in S : a = b \/ Less(a, b)

\* the lines of console.log: a residual line, a line the pattern does not
\* match, a line the pattern matches although a group is no number
\* ('1.2.3', 'e'): float() raises ValueError
ResidualLine(cont, xvel, yvel) ==
    [kind |-> "residual", cont |-> cont, xvel |-> xvel, yvel |-> yvel]
TextLine == [kind |-> "text", cont |-> Zero, xvel |-> Zero, yvel |-> Zero]
MalformedLine == [kind |-> "malformed", cont |-> Zero, xvel |-> Zero, yvel |-> Zero]

LogResiduals == {Zero, Sci(2, -8)}
LogLines ==
    {ResidualLine(c, x, y) : c \in LogResiduals, x \in LogResiduals, y \in LogResiduals}
    \cup {TextLine, MalformedLine}
Logs == UNION {[1..n -> LogLines] : n \in 0..MaxLogLines}

\* line 40-42: a zero is replaced by 1e-15
Floored(a) == IF Positive(a) THEN a ELSE Sci(1, -15)

RECURSIVE extract_residuals_from_log(_)
\* the rows kept, or the raise of float()
extract_residuals_from_log(lines) ==
    IF lines = <<>> THEN Returned(<<>>)
    ELSE LET line == Head(lines)
             rest == extract_residuals_from_log(Tail(lines))
         IN  IF line.kind = "malformed" THEN Raised
             ELSE IF rest.kind = "raised" THEN Raised
             ELSE IF line.kind = "residual"
                     /\ (Positive(line.cont) \/ Positive(line.xvel)
                         \/ Positive(line.yvel))
             THEN Returned(<<[continuity |-> Floored(line.cont),
                              x_velocity |-> Floored(line.xvel),
                              y_velocity |-> Floored(line.yvel)]>> \o rest.value)
             ELSE rest

\* what plot_convergence reads of one column
Column(final, min, ratio) == [final |-> final, min |-> min, ratio |-> ratio]
EmptyColumn == Column(NaN, NaN, NaN)
History(n, continuity, x_velocity, y_velocity) ==
    [n |-> n, continuity |-> continuity, x_velocity |-> x_velocity,
     y_velocity |-> y_velocity]

\* the data frame of fewer than 100 rows that extract_residuals_from_log
\* returns (std/mean is not computed for it)
ColumnOf(rows, c) ==
    IF rows = <<>> THEN EmptyColumn
    ELSE Column(rows[Len(rows)][c], Smallest({rows[i][c] : i \in DOMAIN rows}), NaN)
DataFrame(rows) ==
    History(Len(rows), ColumnOf(rows, "continuity"), ColumnOf(rows, "x_velocity"),
            ColumnOf(rows, "y_velocity"))

\* ratio < 0.1; a comparison with NaN is False
BelowTenth(ratio) == ratio # NaN /\ ratio.num * 10 < ratio.den

\* the decision of lines 140-190 with PRACTICALLY_CONVERGED not asking for a
\* plateau
Status_PracticalWithoutPlateau(df) ==
    LET is_plateaued == /\ BelowTenth(df.continuity.ratio)
                        /\ BelowTenth(df.x_velocity.ratio)
                        /\ BelowTenth(df.y_velocity.ratio)
        met_strict_criteria == /\ Less(df.continuity.min, Sci(1, -6))
                               /\ Less(df.x_velocity.min, Sci(1, -9))
                               /\ Less(df.y_velocity.min, Sci(1, -9))
        met_practical_criteria == /\ Less(df.continuity.final, Sci(2, -5))
                                  /\ Less(df.x_velocity.final, Sci(3, -8))
                                  /\ Less(df.y_velocity.final, Sci(3, -8))
    IN  IF df.n >= 100
        THEN IF met_strict_criteria THEN "CONVERGED"
             ELSE IF met_practical_criteria THEN "PRACTICALLY_CONVERGED"
             ELSE IF is_plateaued THEN "PLATEAUED"
             ELSE "NOT_CONVERGED"
        ELSE "UNKNOWN"

\* lines 140-190: the status of a history of two rows or more
Status(df) ==
    LET is_plateaued == /\ BelowTenth(df.continuity.ratio)
                        /\ BelowTenth(df.x_velocity.ratio)
                        /\ BelowTenth(df.y_velocity.ratio)
        met_strict_criteria == /\ Less(df.continuity.min, Sci(1, -6))
                               /\ Less(df.x_velocity.min, Sci(1, -9))
                               /\ Less(df.y_velocity.min, Sci(1, -9))
        met_practical_criteria == /\ Less(df.continuity.final, Sci(2, -5))
                                  /\ Less(df.x_velocity.final, Sci(3, -8))
                                  /\ Less(df.y_velocity.final, Sci(3, -8))
                                  /\ is_plateaued
    IN  IF df.n >= 100
        THEN IF met_strict_criteria THEN "CONVERGED"
             ELSE IF met_practical_criteria THEN "PRACTICALLY_CONVERGED"
             ELSE IF is_plateaued THEN "PLATEAUED"
             ELSE "NOT_CONVERGED"
        ELSE "UNKNOWN"

\* plot_convergence(df_residuals, re_num, output_dir), output_dir being
\* there: the status returned and the picture saved as convergence_Re<n>.png
plot_convergence(df, re_num) ==
    IF df.n <= 1
    THEN [status |-> "FALSE_CONVERGENCE",
          plot |-> [type |-> "false_convergence", re_num |-> re_num]]
    ELSE [status |-> Status(df), plot |-> [type |-> "history", re_num |-> re_num]]


\* re.match(r'Re(\d+)', case_name): group 1, None without a match
ReMatch(case_name) ==
    IF StartsWithRe(case_name) /\ Len(case_name) >= 3 /\ IsDigit(case_name[3])
    THEN Some(SubSeq(case_name, 3,
                     Max({j \in 3..Len(case_name) : AllDigits(case_name, 3, j)})))
    ELSE None

LogFile(lines) == [type |-> "log", lines |-> lines]
PlotsDir(convergence) == [type |-> "dir", convergence |-> convergence]
\* a case directory: its name, console.log and the plots subdirectory; the
\* CSV files of the other plots are not there
CaseDir(name, log, plots) == [name |-> name, log |-> log, plots |-> plots]

\* lines 488-495: the try block; the status and the picture saved, if any
ConvergenceStep(log, re_num, old_plot) ==
    LET rows == extract_residuals_from_log(log.lines) IN
    IF rows.kind = "raised" THEN [status |-> "UNKNOWN", plot |-> old_plot]
    ELSE IF Len(rows.value) > 0
    THEN plot_convergence(DataFrame(rows.value), re_num)
    ELSE [status |-> "UNKNOWN", plot |-> old_plot]

\* process_case(case_dir): what it returns and the case directory it leaves
process_case(case_dir) ==
    IF ReMatch(case_dir.name) = None
    THEN [value |-> None, case_dir |-> case_dir]
    ELSE IF case_dir.log = Absent
    THEN [value |-> None, case_dir |-> case_dir]
    ELSE LET re_num == ToInt(ReMatch(case_dir.name).some)
             old_plot == IF case_dir.plots = Absent THEN Absent
                         ELSE case_dir.plots.convergence
             step == ConvergenceStep(case_dir.log, re_num, old_plot)
         IN  [value |-> Some([re_num |-> re_num, convergence_status |-> step.status]),
              case_dir |-> [case_dir EXCEPT !.plots = PlotsDir(step.plot)]]

CaseNames == {<<"R", "e", "1">>, <<"R", "e", "a">>}

InitCase ==
    /\ pc = "process_case"
    /\ \E name \in CaseNames, log \in {LogFile(l) : l \in Logs} \cup {Absent},
          plots \in {Absent, PlotsDir(Absent)} :
          disk = CaseDir(name, log, plots)
    /\ args = Idle
    /\ result = NotCalled
    /\ re_folders = Idle
    /\ done_log = Idle
    /\ successful_conversions = 0
    /\ failed_conversions = 0
    /\ verification_results = Idle

ProcessCase ==
    /\ pc = "process_case"
    /\ \E r \in {process_case(disk)} :
          /\ result' = Returned(r.value)
          /\ disk' = r.case_dir
    /\ pc' = "done"
    /\ UNCHANGED <<args, re_folders, done_log, successful_conversions,
                   failed_conversions, verification_results>>

NextCase == ProcessCase

SpecCase == InitCase /\ [][NextCase]_vars

\* console.log holds residual lines only, at least one, all with the three
\* residuals equal to 0
OnlyZeroResiduals(log) ==
    /\ log # Absent
    /\ log.lines # <<>>
    /\ \A i \in DOMAIN log.lines :
          log.lines[i] = ResidualLine(Zero, Zero, Zero)

\* C16: a case whose console.log holds only residual lines whose three
\* residuals are 0 is reported by process_case with the convergence status
\* FALSE_CONVERGENCE and gets the false-convergence plot.
C16_ZeroResidualsReported ==
    (pc = "done" /\ ReMatch(disk.name) # None /\ OnlyZeroResiduals(disk.log)) =>
        /\ result.value # None
        /\ result.value.some.convergence_status = "FALSE_CONVERGENCE"
        /\ disk.plots # Absent
        /\ disk.plots.convergence # Absent
        /\ disk.plots.convergence.type = "false_convergence"

(***************************************************************************)
(* Script: one call of plot_convergence on an arbitrary residual history   *)
(***************************************************************************)
ContinuityValues == {Sci(9, -7), Sci(1, -6), Sci(1, -5), Sci(2, -5)}
VelocityValues == {Sci(9, -10), Sci(1, -9), Sci(2, -8), Sci(3, -8)}
Ratios == {Quotient(99, 1000), Quotient(1, 10), NaN}
RowCounts == {0, 1, 2, 99, 100, 101}

\* the columns a history of n rows can have
Columns(n, values) ==
    IF n = 0 THEN {EmptyColumn}
    ELSE IF n = 1 THEN {Column(v, v, NaN) : v \in values}
    ELSE {c \in {Column(f, m, r) : f \in values, m \in values,
                    r \in IF n >= 100 THEN Ratios ELSE {NaN}} :
            c.min = c.final \/ Less(c.min, c.final)}
InitConvergence ==
    /\ pc = "plot_convergence"
    /\ \E n \in RowCounts :
          \E c \in Columns(n, ContinuityValues), x \in Columns(n, VelocityValues),
             y \in Columns(n, VelocityValues) :
             args = [df_residuals |-> History(n, c, x, y), re_num |-> 100]
    /\ result = NotCalled
    /\ disk = Idle
    /\ re_folders = Idle
    /\ done_log = Idle
    /\ successful_conversions = 0
    /\ failed_conversions = 0
    /\ verification_results = Idle

CallPlotConvergence ==
    /\ pc = "plot_convergence"
    /\ result' = Returned(plot_convergence(args.df_residuals, args.re_num).status)
    /\ pc' = "done"
    /\ UNCHANGED <<args, dirVars>>

NextConvergence == CallPlotConvergence

SpecConvergence == InitConvergence /\ [][NextConvergence]_vars

\* the conditions of the decision table, stated on the history
Plateaued(df) ==
    \A c \in {"continuity", "x_velocity", "y_velocity"} :
        df[c].ratio # NaN /\ 10 * df[c].ratio.num < df[c].ratio.den
StrictCriteria(df) ==
    /\ Less(df.continuity.min, Sci(1, -6))
    /\ Less(df.x_velocity.min, Sci(1, -9))
    /\ Less(df.y_velocity.min, Sci(1, -9))
PracticalThresholds(df) ==
    /\ Less(df.continuity.final, Sci(2, -5))
    /\ Less(df.x_velocity.final, Sci(3, -8))
    /\ Less(df.y_velocity.final, Sci(3, -8))

\* C17: plot_convergence returns one status by this table: at most 1 row,
\* FALSE_CONVERGENCE; 2 to 99 rows, UNKNOWN; 100 rows or more, CONVERGED if the
\* strict criteria hold, else PRACTICALLY_CONVERGED if the final residuals are
\* below the practical thresholds and the last 100 iterations are plateaued,
\* else PLATEAUED if plateaued, else NOT_CONVERGED; PRACTICALLY_CONVERGED and
\* PLATEAUED are never returned for a history that is not plateaued.
C17_DecisionTable ==
    pc = "done" =>
        LET df == args.df_residuals
            status == result.value
        IN  /\ result.kind = "returned"
            /\ df.n <= 1 => status = "FALSE_CONVERGENCE"
            /\ (2 <= df.n /\ df.n <= 99) => status = "UNKNOWN"
            /\ df.n >= 100 =>
                  /\ status = IF StrictCriteria(df) THEN "CONVERGED"
                              ELSE IF PracticalThresholds(df) /\ Plateaued(df)
                              THEN "PRACTICALLY_CONVERGED"
                              ELSE IF Plateaued(df) THEN "PLATEAUED"
                              ELSE "NOT_CONVERGED"
                  /\ status \in {"PRACTICALLY_CONVERGED", "PLATEAUED"} => Plateaued(df)

C17_Witness ==
    /\ pc = "done"
    /\ args.df_residuals.n = 100
    /\ ~StrictCriteria(args.df_residuals)
    /\ PracticalThresholds(args.df_residuals)
    /\ ~Plateaued(args.df_residuals)
    /\ result = Returned("NOT_CONVERGED")

=============================================================================
